---- MODULE Spec2Model ----
(***************************************************************************)
(* USB Video Class (UVC) gadget function: the configfs tree that           *)
(* UvcFunction::register builds, the teardown walk of remove_handler, the  *)
(* builder helper UvcBuilder::fps and the device lookup                    *)
(* Uvc::get_v4l_device (src/src/function/uvc.rs).                          *)
(*                                                                         *)
(* A path (PathBuf) is the sequence of its components; the root "/" is the *)
(* empty sequence.  A file's content is a string.  A u32 that takes part   *)
(* in arithmetic is held as four base-256 limbs, least significant first,  *)
(* so that products beyond 32 bits are computed exactly.                   *)
(***************************************************************************)
EXTENDS Integers, Sequences, FiniteSets, TLC

VARIABLES
    frames,      \* UvcBuilder.frames: Vec<Frame>
    phase,       \* "builder", "built", "registering", "registered", "teardown"
    mkparents,   \* environment: FunctionDir::write creates missing parent directories
    kernelOwned, \* environment: the tree is a kernel configfs (default groups cannot be removed)
    fdir,        \* FunctionDir::dir(): [ok |-> BOOLEAN, path |-> absolute path]
    fs,          \* the filesystem: [dirs, files, links]
    rpc,         \* register(): the statement it is at
    fi,          \* register(): index of the frame of the loop at line 87
    sym_links,   \* register(): Vec<(PathBuf, PathBuf)> of line 80
    li,          \* register(): index of the link of the loop at line 130
    regResult,   \* register(): "none", "running", "ok", "err", "panic"
    calls,       \* history: the filesystem calls register() has made, in order
    tdPass,      \* remove_handler(): the walk_and_delete call it is in, 1..5; 0 when idle; 6 when all five returned
    tdStack,     \* walk_and_delete(): the active calls, each [dir, todo]
    tdResults,   \* history: the results of the finished remove_handler() runs
    tdVisited,   \* history: the directories remove_handler() called walk_and_delete on, in order
    fsAfterRun,  \* history: the filesystem as the last finished remove_handler() run left it
    fpsCall,     \* one call of UvcBuilder::fps: [n, out, done]
    sysfs,       \* the sysfs tree: [dirs, files, links]
    v4l,         \* one call of Uvc::get_v4l_device: [done, ok, kind, path, printed, reads]
    statusOut,   \* what the last call of Uvc::status returned; "none" before the first
    other        \* a second caller of register() on the same directory, while it is
                 \* not running: [phase, rpc, fi, sym_links, li, regResult, calls]

builderVars == <<frames>>
envVars == <<mkparents, kernelOwned, fdir, other>>
regVars == <<rpc, fi, sym_links, li, regResult, calls>>
tdVars == <<tdPass, tdStack, tdResults, tdVisited, fsAfterRun>>
resolverVars == <<sysfs, v4l, statusOut>>
vars == <<frames, phase, mkparents, kernelOwned, fdir, fs, rpc, fi, sym_links, li,
          regResult, calls, tdPass, tdStack, tdResults, tdVisited, fsAfterRun,
          fpsCall, sysfs, v4l, statusOut, other>>

(***************************************************************************)
(* Bounds of the model.                                                    *)
(***************************************************************************)
MaxFrames == 2
MaxFps == 120
MaxTeardowns == 2

(***************************************************************************)
(* Paths.                                                                  *)
(***************************************************************************)
Parent(p) == SubSeq(p, 1, Len(p) - 1)

FileName(p) == p[Len(p)]

Join(p, q) == p \o q

Ancestors(p) == {SubSeq(p, 1, k) : k \in 0..Len(p)}

StartsWith(s, prefix) ==
    /\ Len(s) >= Len(prefix)
    /\ SubSeq(s, 1, Len(prefix)) = prefix

(***************************************************************************)
(* u32 arithmetic and decimal rendering.                                   *)
(***************************************************************************)
U32(n) == [i \in 1..4 |-> (n \div (256 ^ (i - 1))) % 256]

IsZero(l) == \A i \in 1..Len(l) : l[i] = 0

RECURSIVE ColSum(_, _, _, _)
ColSum(a, b, k, i) ==
    IF i > 4 THEN 0
    ELSE (IF (k + 1 - i) \in 1..4 THEN a[i] * b[k + 1 - i] ELSE 0) + ColSum(a, b, k, i + 1)

RECURSIVE MulCarry(_, _, _, _)
MulCarry(a, b, k, carry) ==
    IF k > 8 THEN <<>>
    ELSE LET s == ColSum(a, b, k, 1) + carry
         IN  <<s % 256>> \o MulCarry(a, b, k + 1, s \div 256)

\* a * b on u32: the low 32 bits of the product, and whether the product needs more
u32_mul(a, b) ==
    LET full == MulCarry(a, b, 1, 0)
    IN  [value |-> SubSeq(full, 1, 4), overflow |-> \E i \in 5..8 : full[i] # 0]

RECURSIVE Div10(_, _, _)
Div10(l, i, rem) ==
    IF i = 0 THEN [q |-> <<>>, r |-> rem]
    ELSE LET cur == rem * 256 + l[i]
             rest == Div10(l, i - 1, cur % 10)
         IN  [q |-> Append(rest.q, cur \div 10), r |-> rest.r]

DigitChar(d) == <<"0", "1", "2", "3", "4", "5", "6", "7", "8", "9">>[d + 1]

RECURSIVE Digits(_)
Digits(l) ==
    IF IsZero(l) THEN ""
    ELSE LET d == Div10(l, Len(l), 0) IN Digits(d.q) \o DigitChar(d.r)

\* u32::to_string
to_string(l) == IF IsZero(l) THEN "0" ELSE Digits(l)

add_unix_line_ending(str) == str \o "\n"

RECURSIVE JoinLines(_)
JoinLines(strs) ==
    IF strs = <<>> THEN ""
    ELSE IF Len(strs) = 1 THEN strs[1]
    ELSE strs[1] \o "\n" \o JoinLines(Tail(strs))

(***************************************************************************)
(* UvcBuilder::fps.  An f64 is held as whole + num/den.  The quotient of   *)
(* 10000000.0 by an integer n is rounded to 53 significant bits; when n    *)
(* does not divide 10000000 the quotient lies at least 1/n below the next  *)
(* integer, which is more than the rounding can move it, so the rounding   *)
(* leaves the whole part as it is and the fraction non-zero.               *)
(***************************************************************************)
TenMillion == 10000000

F64Div(a, n) == [whole |-> a \div n, num |-> a % n, den |-> n]

\* mutant: the cast rounds to the nearest integer
F64AsU32Round(x) == IF 2 * x.num >= x.den THEN x.whole + 1 ELSE x.whole

\* `x as u32`: the fraction is dropped
F64AsU32(x) == x.whole

fps(n) ==
    LET frame_interval == F64Div(TenMillion, n)
    IN  F64AsU32(frame_interval)

FpsInputs == (1..MaxFps) \cup {9999999, 10000000, 10000001, 2000000000}

(***************************************************************************)
(* The filesystem: the calls of std::fs and std::os::unix::fs that the     *)
(* code makes.  Each returns [ok, fs]: whether the call succeeded, and the *)
(* filesystem after it.                                                    *)
(***************************************************************************)
IsLink(f, p) == p \in DOMAIN f.links

IsFile(f, p) == p \in DOMAIN f.files

EntryExists(f, p) == p \in f.dirs \/ IsFile(f, p) \/ IsLink(f, p)

Children(f, p) ==
    {q \in f.dirs \cup DOMAIN f.files \cup DOMAIN f.links : Len(q) = Len(p) + 1 /\ Parent(q) = p}

\* Path::exists, Path::is_symlink, Path::is_dir: exists and is_dir follow a symlink
path_exists(f, p) == IF IsLink(f, p) THEN EntryExists(f, f.links[p]) ELSE EntryExists(f, p)

path_is_symlink(f, p) == IsLink(f, p)

path_is_dir(f, p) == IF IsLink(f, p) THEN f.links[p] \in f.dirs ELSE p \in f.dirs

\* the directories register() and remove_handler count on without creating them: the
\* parents of streaming/header/h and control/header/h and of the five class links.
\* They are the groups the kernel's UVC function provides
Skeleton(root) ==
    {Join(root, q) : q \in {<<>>,
        <<"control">>, <<"control", "class">>, <<"control", "class", "fs">>,
        <<"control", "class", "ss">>, <<"control", "header">>,
        <<"streaming">>, <<"streaming", "class">>, <<"streaming", "class", "fs">>,
        <<"streaming", "class", "hs">>, <<"streaming", "class", "ss">>,
        <<"streaming", "header">>}}

fs_create_dir(f, p) ==
    IF Parent(p) \in f.dirs /\ ~EntryExists(f, p)
    THEN [ok |-> TRUE, fs |-> [f EXCEPT !.dirs = @ \cup {p}]]
    ELSE [ok |-> FALSE, fs |-> f]

fs_create_dir_all(f, p) ==
    IF \E a \in Ancestors(p) : IsFile(f, a) \/ IsLink(f, a)
    THEN [ok |-> FALSE, fs |-> f]
    ELSE [ok |-> TRUE, fs |-> [f EXCEPT !.dirs = @ \cup Ancestors(p)]]

fs_write(f, p, bytes) ==
    IF Parent(p) \in f.dirs /\ p \notin f.dirs /\ ~IsLink(f, p)
    THEN [ok |-> TRUE,
          fs |-> [f EXCEPT !.files = [q \in DOMAIN f.files \cup {p} |->
                                         IF q = p THEN bytes ELSE f.files[q]]]]
    ELSE [ok |-> FALSE, fs |-> f]

\* symlink(original, link): configfs refuses a link whose target is no directory of the tree
symlink(f, original, link, configfs) ==
    IF Parent(link) \in f.dirs /\ ~EntryExists(f, link) /\ (configfs => original \in f.dirs)
    THEN [ok |-> TRUE,
          fs |-> [f EXCEPT !.links = [q \in DOMAIN f.links \cup {link} |->
                                         IF q = link THEN original ELSE f.links[q]]]]
    ELSE [ok |-> FALSE, fs |-> f]

fs_remove_file(f, p) ==
    IF IsLink(f, p)
    THEN [ok |-> TRUE, fs |-> [f EXCEPT !.links = [q \in DOMAIN f.links \ {p} |-> f.links[q]]]]
    ELSE IF IsFile(f, p)
    THEN [ok |-> TRUE, fs |-> [f EXCEPT !.files = [q \in DOMAIN f.files \ {p} |-> f.files[q]]]]
    ELSE [ok |-> FALSE, fs |-> f]

\* rmdir: the directory must be empty; configfs also refuses a default group of the
\* kernel and a directory some symlink still points to
fs_remove_dir(f, p, configfs, root) ==
    IF /\ p \in f.dirs
       /\ Children(f, p) = {}
       /\ configfs => (p \notin Skeleton(root) /\ \A l \in DOMAIN f.links : f.links[l] # p)
    THEN [ok |-> TRUE, fs |-> [f EXCEPT !.dirs = @ \ {p}]]
    ELSE [ok |-> FALSE, fs |-> f]

fs_read_dir(f, p) ==
    IF path_is_dir(f, p)
    THEN [ok |-> TRUE, entries |-> Children(f, IF IsLink(f, p) THEN f.links[p] ELSE p)]
    ELSE [ok |-> FALSE, entries |-> {}]

(***************************************************************************)
(* FunctionDir, the scoped directory handle (util.rs).                     *)
(***************************************************************************)
\* FunctionDir::property_path: the function directory joined with the relative name
property_path(d, name) ==
    IF d.ok THEN [ok |-> TRUE, path |-> Join(d.path, name)] ELSE [ok |-> FALSE, path |-> <<>>]

\* FunctionDir::create_dir: fails when the parent does not exist
dir_create_dir(d, f, name) ==
    LET p == property_path(d, name)
    IN  IF p.ok THEN fs_create_dir(f, p.path) ELSE [ok |-> FALSE, fs |-> f]

\* FunctionDir::write: with mk, the missing directories above the file are created first
dir_write(d, f, name, bytes, mk) ==
    LET p == property_path(d, name)
    IN  IF ~p.ok THEN [ok |-> FALSE, fs |-> f]
        ELSE IF mk
        THEN LET made == fs_create_dir_all(f, Parent(p.path))
             IN  IF made.ok THEN fs_write(made.fs, p.path, bytes) ELSE [ok |-> FALSE, fs |-> f]
        ELSE fs_write(f, p.path, bytes)

(***************************************************************************)
(* Frames and the builder.                                                 *)
(***************************************************************************)
Formats == {"mjpeg", "uncompressed"}

Names == {"mjpeg", "yuyv"}

\* <<width, height, frame_intervals>>
SmallDims == <<1920, 1080, <<fps(15)>>>>

LargeDims == <<65536, 32768, <<fps(30), fps(15)>>>>

\* the frames add_frame is called with: every format and name at 1920x1080, and two
\* frames whose buffer size does not fit a u32
FrameChoices ==
    {[format |-> c[1], name |-> c[2], width |-> c[3][1], height |-> c[3][2],
      frame_intervals |-> c[3][3]] :
        c \in (Formats \X Names \X {SmallDims})
               \cup {<<"mjpeg", "mjpeg", LargeDims>>, <<"uncompressed", "yuyv", LargeDims>>}}

DefaultDir == <<"sys", "kernel", "config", "usb_gadget", "g1", "functions", "uvc.0">>

\* the tree before register(): the function directory, the directories above it and
\* the kernel's groups in it
EmptyFs(root) == [dirs |-> Ancestors(root) \cup Skeleton(root), files |-> <<>>, links |-> <<>>]

\* UvcBuilder::add_frame
AddFrame ==
    /\ phase = "builder"
    /\ Len(frames) < MaxFrames
    /\ \E frame \in FrameChoices : frames' = Append(frames, frame)
    /\ UNCHANGED <<phase, envVars, fs, regVars, tdVars, fpsCall, resolverVars>>

\* UvcBuilder::build
Build ==
    /\ phase = "builder"
    /\ phase' = "built"
    /\ UNCHANGED <<frames, envVars, fs, regVars, tdVars, fpsCall, resolverVars>>

(***************************************************************************)
(* UvcFunction::register, one action per filesystem call.                  *)
(***************************************************************************)
frame_dir(frame) == <<"streaming", frame.format, frame.name>>

frame_path(frame) == Join(frame_dir(frame), <<to_string(U32(frame.height)) \o "p">>)

\* mutant: the header link points at the resolution subdirectory
FrameLinkToResolution(frame) == <<frame_path(frame), <<"streaming", "header", "h", frame.name>>>>

\* the pair register() records for a frame (line 116)
FrameLink(frame) == <<frame_dir(frame), <<"streaming", "header", "h", frame.name>>>>

\* a register() that leaves out the high-speed class link
StreamingClassLinksNoHs ==
    [i \in 1..2 |-> <<<<"streaming", "header", "h">>,
                      <<"streaming", "class", <<"fs", "ss">>[i], "h">>>>]

\* the pairs of the loop at lines 119-121
StreamingClassLinks ==
    [i \in 1..3 |-> <<<<"streaming", "header", "h">>,
                      <<"streaming", "class", <<"fs", "hs", "ss">>[i], "h">>>>]

\* the pairs of the loop at lines 124-126
ControlClassLinks ==
    [i \in 1..2 |-> <<<<"control", "header", "h">>,
                      <<"control", "class", <<"fs", "ss">>[i], "h">>>>]

\* frame.width * frame.height * 2 (line 101)
frame_buffer_size(frame) ==
    LET wh == u32_mul(U32(frame.width), U32(frame.height))
        whole == u32_mul(wh.value, U32(2))
    IN  [value |-> whole.value, overflow |-> wh.overflow \/ whole.overflow]

interval_file(frame) ==
    JoinLines([i \in 1..Len(frame.frame_intervals) |-> to_string(U32(frame.frame_intervals[i]))])

\* a register() that returns Ok(()) when a call fails
RegCallOkOnError(r, op, name, target, next) ==
    /\ calls' = Append(calls, [op |-> op, name |-> name, target |-> target])
    /\ fs' = r.fs
    /\ IF r.ok
       THEN /\ rpc' = next
            /\ regResult' = "running"
            /\ phase' = "registering"
       ELSE /\ rpc' = rpc
            /\ regResult' = "ok"
            /\ phase' = "registered"

\* a register() that undoes what it has done when a call fails
RegCallRollback(r, op, name, target, next) ==
    /\ calls' = Append(calls, [op |-> op, name |-> name, target |-> target])
    /\ fs' = IF r.ok THEN r.fs ELSE EmptyFs(fdir.path)
    /\ IF r.ok
       THEN /\ rpc' = next
            /\ regResult' = "running"
            /\ phase' = "registering"
       ELSE /\ rpc' = rpc
            /\ regResult' = "err"
            /\ phase' = "registered"

\* a call `...?` of register(): the call is logged; on an error register() returns at once
RegCall(r, op, name, target, next) ==
    /\ calls' = Append(calls, [op |-> op, name |-> name, target |-> target])
    /\ fs' = r.fs
    /\ IF r.ok
       THEN /\ rpc' = next
            /\ regResult' = "running"
            /\ phase' = "registering"
       ELSE /\ rpc' = rpc
            /\ regResult' = "err"
            /\ phase' = "registered"

AfterFrames == IF frames = <<>> THEN "control_header" ELSE "frame_width"

\* line 79
RegCreateStreamingHeader ==
    /\ phase = "built"
    /\ rpc = "create_streaming_header"
    /\ RegCall(dir_create_dir(fdir, fs, <<"streaming", "header", "h">>),
               "create_dir", <<"streaming", "header", "h">>, <<>>, "write_interval")
    /\ UNCHANGED <<frames, envVars, fi, sym_links, li, tdVars, fpsCall, resolverVars>>

\* lines 82-84
RegWriteInterval ==
    /\ phase = "registering"
    /\ rpc = "write_interval"
    /\ RegCall(dir_write(fdir, fs, <<"streaming_interval">>, "1\n", mkparents),
               "write", <<"streaming_interval">>, <<>>, "write_maxpacket")
    /\ UNCHANGED <<frames, envVars, fi, sym_links, li, tdVars, fpsCall, resolverVars>>

RegWriteMaxpacket ==
    /\ phase = "registering"
    /\ rpc = "write_maxpacket"
    /\ RegCall(dir_write(fdir, fs, <<"streaming_maxpacket">>, "3072\n", mkparents),
               "write", <<"streaming_maxpacket">>, <<>>, "write_maxburst")
    /\ UNCHANGED <<frames, envVars, fi, sym_links, li, tdVars, fpsCall, resolverVars>>

RegWriteMaxburst ==
    /\ phase = "registering"
    /\ rpc = "write_maxburst"
    /\ RegCall(dir_write(fdir, fs, <<"streaming_maxburst">>, "1\n", mkparents),
               "write", <<"streaming_maxburst">>, <<>>, AfterFrames)
    /\ UNCHANGED <<frames, envVars, fi, sym_links, li, tdVars, fpsCall, resolverVars>>

\* lines 91-94
RegFrameWidth ==
    /\ phase = "registering"
    /\ rpc = "frame_width"
    /\ LET frame == frames[fi]
           name == Join(frame_path(frame), <<"wWidth">>)
       IN  RegCall(dir_write(fdir, fs, name,
                             add_unix_line_ending(to_string(U32(frame.width))), mkparents),
                   "write", name, <<>>, "frame_height")
    /\ UNCHANGED <<frames, envVars, fi, sym_links, li, tdVars, fpsCall, resolverVars>>

\* lines 96-99
RegFrameHeight ==
    /\ phase = "registering"
    /\ rpc = "frame_height"
    /\ LET frame == frames[fi]
           name == Join(frame_path(frame), <<"wHeight">>)
       IN  RegCall(dir_write(fdir, fs, name,
                             add_unix_line_ending(to_string(U32(frame.height))), mkparents),
                   "write", name, <<>>, "frame_buffer")
    /\ UNCHANGED <<frames, envVars, fi, sym_links, li, tdVars, fpsCall, resolverVars>>

\* lines 101-105: when the product overflows a u32, a build with overflow checks panics
\* and a build without them wraps
RegFrameBuffer ==
    /\ phase = "registering"
    /\ rpc = "frame_buffer"
    /\ LET frame == frames[fi]
           size == frame_buffer_size(frame)
           name == Join(frame_path(frame), <<"dwMaxVideoFrameBufferSize">>)
       IN  \E checked \in (IF size.overflow THEN BOOLEAN ELSE {FALSE}) :
               IF checked
               THEN /\ regResult' = "panic"
                    /\ phase' = "registered"
                    /\ UNCHANGED <<fs, rpc, calls>>
               ELSE RegCall(dir_write(fdir, fs, name,
                                      add_unix_line_ending(to_string(size.value)), mkparents),
                            "write", name, <<>>, "frame_interval")
    /\ UNCHANGED <<frames, envVars, fi, sym_links, li, tdVars, fpsCall, resolverVars>>

\* mutant: the frame's link is created inside the loop instead of being recorded
RegFrameIntervalLinkNow ==
    /\ phase = "registering"
    /\ rpc = "frame_interval"
    /\ LET frame == frames[fi]
           name == Join(frame_path(frame), <<"dwFrameInterval">>)
           r == dir_write(fdir, fs, name, add_unix_line_ending(interval_file(frame)), mkparents)
           pair == FrameLink(frame)
           l == IF r.ok
                THEN symlink(r.fs, Join(fdir.path, pair[1]), Join(fdir.path, pair[2]), kernelOwned)
                ELSE r
       IN  /\ calls' = IF r.ok
                       THEN calls \o <<[op |-> "write", name |-> name, target |-> <<>>],
                                       [op |-> "symlink", name |-> pair[2], target |-> pair[1]]>>
                       ELSE Append(calls, [op |-> "write", name |-> name, target |-> <<>>])
           /\ fs' = l.fs
           /\ rpc' = IF ~l.ok THEN rpc
                     ELSE IF fi < Len(frames) THEN "frame_width" ELSE "control_header"
           /\ regResult' = IF l.ok THEN "running" ELSE "err"
           /\ phase' = IF l.ok THEN "registering" ELSE "registered"
           /\ fi' = IF l.ok THEN fi + 1 ELSE fi
           /\ sym_links' = sym_links
    /\ UNCHANGED <<frames, envVars, li, tdVars, fpsCall, resolverVars>>

\* lines 107-117: the write, then the frame's link is recorded and the loop goes on
RegFrameInterval ==
    /\ phase = "registering"
    /\ rpc = "frame_interval"
    /\ LET frame == frames[fi]
           name == Join(frame_path(frame), <<"dwFrameInterval">>)
           r == dir_write(fdir, fs, name, add_unix_line_ending(interval_file(frame)), mkparents)
       IN  /\ RegCall(r, "write", name, <<>>,
                      IF fi < Len(frames) THEN "frame_width" ELSE "control_header")
           /\ sym_links' = IF r.ok THEN Append(sym_links, FrameLink(frame)) ELSE sym_links
           /\ fi' = IF r.ok THEN fi + 1 ELSE fi
    /\ UNCHANGED <<frames, envVars, li, tdVars, fpsCall, resolverVars>>

\* mutant: control/header/h is never created
RegCreateControlHeaderNoDir ==
    /\ phase = "registering"
    /\ rpc = "control_header"
    /\ rpc' = "link"
    /\ sym_links' = sym_links \o StreamingClassLinks \o ControlClassLinks
    /\ UNCHANGED <<frames, phase, envVars, fs, fi, li, regResult, calls, tdVars, fpsCall,
                   resolverVars>>

\* lines 119-126: the streaming class links are recorded, control/header/h is created,
\* the control class links are recorded
RegCreateControlHeader ==
    /\ phase = "registering"
    /\ rpc = "control_header"
    /\ LET r == dir_create_dir(fdir, fs, <<"control", "header", "h">>)
       IN  /\ RegCall(r, "create_dir", <<"control", "header", "h">>, <<>>, "link")
           /\ sym_links' = IF r.ok
                           THEN sym_links \o StreamingClassLinks \o ControlClassLinks
                           ELSE sym_links \o StreamingClassLinks
    /\ UNCHANGED <<frames, envVars, fi, li, tdVars, fpsCall, resolverVars>>

\* lines 130-135: one iteration of the loop; after the last one register() returns Ok(())
RegLink ==
    /\ phase = "registering"
    /\ rpc = "link"
    /\ li <= Len(sym_links)
    /\ LET original == property_path(fdir, sym_links[li][1])
           link == property_path(fdir, sym_links[li][2])
           r == IF original.ok /\ link.ok
                THEN symlink(fs, original.path, link.path, kernelOwned)
                ELSE [ok |-> FALSE, fs |-> fs]
       IN  /\ calls' = Append(calls, [op |-> "symlink", name |-> sym_links[li][2],
                                      target |-> sym_links[li][1]])
           /\ fs' = r.fs
           /\ li' = IF r.ok THEN li + 1 ELSE li
           /\ rpc' = IF r.ok /\ li = Len(sym_links) THEN "done" ELSE rpc
           /\ regResult' = IF ~r.ok THEN "err"
                           ELSE IF li = Len(sym_links) THEN "ok" ELSE "running"
           /\ phase' = IF r.ok /\ li < Len(sym_links) THEN "registering" ELSE "registered"
    /\ UNCHANGED <<frames, envVars, fi, sym_links, tdVars, fpsCall, resolverVars>>

\* two register() calls on the same directory, neither serialized against the
\* other: between two filesystem calls of the one that runs, the other one runs on.
\* The variables of register() are those of the caller that runs; `other` holds
\* those of the caller that waits.
Switch ==
    /\ phase \in {"built", "registering", "registered"}
    /\ other.phase \in {"built", "registering"}
    /\ other' = [phase |-> phase, rpc |-> rpc, fi |-> fi, sym_links |-> sym_links,
                 li |-> li, regResult |-> regResult, calls |-> calls]
    /\ phase' = other.phase
    /\ rpc' = other.rpc
    /\ fi' = other.fi
    /\ sym_links' = other.sym_links
    /\ li' = other.li
    /\ regResult' = other.regResult
    /\ calls' = other.calls
    /\ UNCHANGED <<frames, mkparents, kernelOwned, fdir, fs, tdVars, fpsCall, resolverVars>>

\* the operation of the filesystem call that register() makes next
PendingOp ==
    IF rpc \in {"create_streaming_header", "control_header"} THEN "create_dir"
    ELSE IF rpc = "link" THEN "symlink"
    ELSE "write"

\* the environment fails the call that register() makes next (EACCES, ENOSPC, a path
\* that does not resolve): the call changes nothing and `?` returns its error
RegFault ==
    /\ phase \in {"built", "registering"}
    /\ RegCall([ok |-> FALSE, fs |-> fs], PendingOp, <<>>, <<>>, rpc)
    /\ UNCHANGED <<frames, envVars, fi, sym_links, li, tdVars, fpsCall, resolverVars>>

(***************************************************************************)
(* remove_handler and walk_and_delete.  tdStack holds the active calls of  *)
(* walk_and_delete, the innermost last; todo is what the read_dir iterator *)
(* of a call has not yielded yet, and it yields in no particular order.    *)
(***************************************************************************)
\* mutant: control/class is never walked
TeardownRootsNoControlClass ==
    <<<<"control", "header">>, <<"streaming", "class">>, <<"streaming", "header">>,
      <<"streaming">>, <<"control", "header">>>>

\* mutant: the header directories are walked before the class directories
TeardownRootsHeaderFirst ==
    <<<<"streaming", "header">>, <<"control", "header">>, <<"control", "class">>,
      <<"streaming", "class">>, <<"streaming">>>>

\* the five walk_and_delete calls of remove_handler, in order (lines 225-231)
TeardownRoots ==
    <<<<"control", "class">>, <<"streaming", "class">>, <<"streaming", "header">>,
      <<"streaming">>, <<"control", "header">>>>

Top == tdStack[Len(tdStack)]

Pop == SubSeq(tdStack, 1, Len(tdStack) - 1)

Yield(e) == [tdStack EXCEPT ![Len(tdStack)].todo = @ \ {e}]

\* remove_handler returns: the run is over
TdFinish(result, f) ==
    /\ tdResults' = Append(tdResults, result)
    /\ fsAfterRun' = f
    /\ tdPass' = 0
    /\ tdStack' = <<>>
    /\ phase' = "registered"

\* the framework calls remove_handler(dir)
TdStart ==
    /\ phase = "registered"
    /\ regResult \in {"ok", "err"}
    /\ Len(tdResults) < MaxTeardowns
    /\ phase' = "teardown"
    /\ tdPass' = 1
    /\ tdStack' = <<>>
    /\ tdVisited' = <<>>
    /\ UNCHANGED <<frames, envVars, fs, regVars, tdResults, fsAfterRun, fpsCall, resolverVars>>

\* remove_handler calls walk_and_delete(dir.join(...)): fs::read_dir(dir)? (line 211)
TdWalkRoot ==
    /\ phase = "teardown"
    /\ tdStack = <<>>
    /\ tdPass \in 1..Len(TeardownRoots)
    /\ LET root == Join(fdir.path, TeardownRoots[tdPass])
           rd == fs_read_dir(fs, root)
       IN  /\ tdVisited' = Append(tdVisited, TeardownRoots[tdPass])
           /\ IF rd.ok
              THEN /\ tdStack' = <<[dir |-> root, todo |-> rd.entries]>>
                   /\ UNCHANGED <<tdPass, tdResults, fsAfterRun, phase>>
              ELSE TdFinish("err", fs)
    /\ UNCHANGED <<frames, envVars, fs, regVars, fpsCall, resolverVars>>

\* lines 214-215: the entry is a symlink whose target exists
TdUnlink ==
    /\ phase = "teardown"
    /\ tdStack # <<>>
    /\ \E e \in Top.todo :
        /\ path_exists(fs, e) /\ path_is_symlink(fs, e)
        /\ LET r == fs_remove_file(fs, e)
           IN  /\ fs' = r.fs
               /\ IF r.ok
                  THEN /\ tdStack' = Yield(e)
                       /\ UNCHANGED <<tdPass, tdResults, fsAfterRun, phase>>
                  ELSE TdFinish("err", r.fs)
    /\ UNCHANGED <<frames, envVars, regVars, tdVisited, fpsCall, resolverVars>>

\* a walk_and_delete that passes over a directory without walking it
TdDescendShallow ==
    /\ phase = "teardown"
    /\ tdStack # <<>>
    /\ \E e \in Top.todo :
        /\ ~(path_exists(fs, e) /\ path_is_symlink(fs, e))
        /\ path_is_dir(fs, e)
        /\ tdStack' = Yield(e)
    /\ UNCHANGED <<frames, phase, envVars, fs, regVars, tdPass, tdResults, tdVisited,
                   fsAfterRun, fpsCall, resolverVars>>

\* lines 216-217: the entry is a directory: walk_and_delete(path)? begins with read_dir
TdDescend ==
    /\ phase = "teardown"
    /\ tdStack # <<>>
    /\ \E e \in Top.todo :
        /\ ~(path_exists(fs, e) /\ path_is_symlink(fs, e))
        /\ path_is_dir(fs, e)
        /\ LET rd == fs_read_dir(fs, e)
           IN  IF rd.ok
               THEN /\ tdStack' = Append(Yield(e), [dir |-> e, todo |-> rd.entries])
                    /\ UNCHANGED <<tdPass, tdResults, fsAfterRun, phase>>
               ELSE TdFinish("err", fs)
    /\ UNCHANGED <<frames, envVars, fs, regVars, tdVisited, fpsCall, resolverVars>>

\* the entries of the innermost call that neither branch of lines 214-219 takes: a
\* regular file, or a symlink whose target is gone
Skipped ==
    {e \in Top.todo : ~(path_exists(fs, e) /\ path_is_symlink(fs, e)) /\ ~path_is_dir(fs, e)}

\* a walk_and_delete that unlinks whatever is no directory
TdSkipRemoveFile ==
    /\ phase = "teardown"
    /\ tdStack # <<>>
    /\ Skipped # {}
    /\ LET e == CHOOSE x \in Skipped : TRUE
       IN  /\ fs' = fs_remove_file(fs, e).fs
           /\ tdStack' = Yield(e)
    /\ UNCHANGED <<frames, phase, envVars, regVars, tdPass, tdResults, tdVisited,
                   fsAfterRun, fpsCall, resolverVars>>

\* the loop passes over such an entry.  Passing over one changes nothing but the
\* iterator, so the order among them is fixed here; the order of the symlinks and
\* the directories, among themselves and relative to these, stays free
TdSkip ==
    /\ phase = "teardown"
    /\ tdStack # <<>>
    /\ Skipped # {}
    /\ tdStack' = Yield(CHOOSE e \in Skipped : TRUE)
    /\ UNCHANGED <<frames, phase, envVars, fs, regVars, tdPass, tdResults, tdVisited,
                   fsAfterRun, fpsCall, resolverVars>>

\* a walk_and_delete that does `fs::remove_dir(path)?`
TdReturnNestedChecked ==
    /\ phase = "teardown"
    /\ Len(tdStack) > 1
    /\ Top.todo = {}
    /\ LET r == fs_remove_dir(fs, Top.dir, kernelOwned, fdir.path)
       IN  /\ fs' = r.fs
           /\ IF r.ok
              THEN /\ tdStack' = Pop
                   /\ UNCHANGED <<tdPass, tdResults, fsAfterRun, phase>>
              ELSE TdFinish("err", fs)
    /\ UNCHANGED <<frames, envVars, regVars, tdVisited, fpsCall, resolverVars>>

\* line 221 then line 218: a nested walk_and_delete returns Ok(()) and its caller
\* does `let _ = fs::remove_dir(path)`
TdReturnNested ==
    /\ phase = "teardown"
    /\ Len(tdStack) > 1
    /\ Top.todo = {}
    /\ fs' = fs_remove_dir(fs, Top.dir, kernelOwned, fdir.path).fs
    /\ tdStack' = Pop
    /\ UNCHANGED <<frames, phase, envVars, regVars, tdPass, tdResults, tdVisited,
                   fsAfterRun, fpsCall, resolverVars>>

\* line 221: a walk_and_delete that remove_handler called returns Ok(()); after the
\* fifth, remove_handler returns Ok(()) (line 232)
TdReturnRoot ==
    /\ phase = "teardown"
    /\ Len(tdStack) = 1
    /\ Top.todo = {}
    /\ IF tdPass < Len(TeardownRoots)
       THEN /\ tdPass' = tdPass + 1
            /\ tdStack' = <<>>
            /\ UNCHANGED <<tdResults, fsAfterRun, phase>>
       ELSE TdFinish("ok", fs)
    /\ UNCHANGED <<frames, envVars, fs, regVars, tdVisited, fpsCall, resolverVars>>

(***************************************************************************)
(* One call of UvcBuilder::fps.                                            *)
(***************************************************************************)
CallFps ==
    /\ ~fpsCall.done
    /\ fpsCall' = [fpsCall EXCEPT !.out = fps(fpsCall.n), !.done = TRUE]
    /\ UNCHANGED <<frames, phase, envVars, fs, regVars, tdVars, resolverVars>>

(***************************************************************************)
(* Uvc::get_v4l_device.  sysfs is a filesystem of its own ([dirs, files,   *)
(* links]).  `.next()` takes the first entry read_dir yields that passes   *)
(* the filter, and read_dir yields in no particular order.  The kind of a  *)
(* result is "io" for an io::Error that `?` passes on from the filesystem   *)
(* (dir(), read_dir), "invalid_data" for the error of line 158, "unit" for  *)
(* Ok(()).                                                                 *)
(***************************************************************************)
None == [some |-> FALSE, path |-> <<>>]

Some(p) == [some |-> TRUE, path |-> p]

\* Path::parent: None for the root
path_parent(o) == IF o.some /\ o.path # <<>> THEN Some(Parent(o.path)) ELSE None

\* Path::file_name: None for the root
path_file_name(o) == IF o.some /\ o.path # <<>> THEN Some(<<FileName(o.path)>>) ELSE None

\* a resolver that takes the name of the first parent level for the gadget's
gadget_nameOneParent(d) == path_file_name(path_parent(Some(d.path)))

\* lines 154-159
gadget_name(d) == path_file_name(path_parent(path_parent(Some(d.path))))

\* line 160
libcomposite_driver_path(name) ==
    <<"sys", "module", "libcomposite", "drivers", "gadget:configfs-gadget." \o name>>

\* lines 163-166: the entries whose file name starts with "gadget."
BoundGadgets(entries) == {e \in entries : StartsWith(FileName(e), "gadget.")}

\* the return of get_v4l_device: the result, what line 170 printed, and the
\* directories of sysfs that were listed before it
V4lReturn(ok, kind, printed, reads) ==
    v4l' = [done |-> TRUE, ok |-> ok, kind |-> kind, path |-> <<>>, printed |-> printed,
            reads |-> reads]

\* a resolver that makes sure the driver directory exists before it lists it
GetV4lDeviceEnsureDir ==
    /\ ~v4l.done
    /\ IF ~fdir.ok
       THEN V4lReturn(FALSE, "io", <<>>, <<>>) /\ sysfs' = sysfs
       ELSE LET name == gadget_name(fdir)
            IN  IF ~name.some
                THEN V4lReturn(FALSE, "invalid_data", <<>>, <<>>) /\ sysfs' = sysfs
                ELSE LET path == libcomposite_driver_path(name.path[1])
                         made == fs_create_dir_all(sysfs, path)
                         bound == BoundGadgets(fs_read_dir(made.fs, path).entries)
                     IN  /\ sysfs' = made.fs
                         /\ \E v4l_path \in (IF bound = {} THEN {None}
                                               ELSE {Some(Join(b, <<"video4linux">>)) : b \in bound}) :
                                  V4lReturn(TRUE, "unit", <<v4l_path>>, <<path>>)
    /\ UNCHANGED <<frames, phase, envVars, fs, regVars, tdVars, fpsCall, statusOut>>

\* lines 153-207
GetV4lDevice ==
    /\ ~v4l.done
    /\ IF ~fdir.ok
       THEN V4lReturn(FALSE, "io", <<>>, <<>>)
       ELSE LET name == gadget_name(fdir)
            IN  IF ~name.some
                THEN V4lReturn(FALSE, "invalid_data", <<>>, <<>>)
                ELSE LET path == libcomposite_driver_path(name.path[1])
                         rd == fs_read_dir(sysfs, path)
                         bound == BoundGadgets(rd.entries)
                     IN  IF ~rd.ok
                         THEN V4lReturn(FALSE, "io", <<>>, <<path>>)
                         ELSE \E v4l_path \in (IF bound = {} THEN {None}
                                               ELSE {Some(Join(b, <<"video4linux">>)) : b \in bound}) :
                                  V4lReturn(TRUE, "unit", <<v4l_path>>, <<path>>)
    /\ UNCHANGED <<frames, phase, envVars, fs, regVars, tdVars, fpsCall, sysfs, statusOut>>

\* FunctionDir::status: from the existence of the directory
dir_status(d, f) ==
    IF ~d.ok THEN "unknown" ELSE IF path_is_dir(f, d.path) THEN "bound" ELSE "unbound"

\* lines 149-151
CallStatus ==
    /\ statusOut' = dir_status(fdir, fs)
    /\ UNCHANGED <<frames, phase, envVars, fs, regVars, tdVars, fpsCall, sysfs, v4l>>

(***************************************************************************)
(* The states of sysfs and of the function directory that get_v4l_device   *)
(* is called in.                                                           *)
(***************************************************************************)
Drivers == <<"sys", "module", "libcomposite", "drivers">>

\* a driver directory for gadget g holding the entries `names`, the first of them
\* with a video4linux directory that holds `videos` (directories) and `others` (files)
SysfsTree(g, names, withV4l, videos, others) ==
    LET drv == libcomposite_driver_path(g)
        inst == {Join(drv, <<n>>) : n \in names}
        v4ldir == Join(drv, <<"gadget.0", "video4linux">>)
        hasV4l == withV4l /\ "gadget.0" \in names
    IN  [dirs |-> Ancestors(drv) \cup inst
                  \cup (IF hasV4l THEN {v4ldir} \cup {Join(v4ldir, <<v>>) : v \in videos} ELSE {}),
         files |-> IF hasV4l THEN [q \in {Join(v4ldir, <<o>>) : o \in others} |-> ""] ELSE <<>>,
         links |-> <<>>]

SysfsChoices ==
    {[dirs |-> Ancestors(Drivers), files |-> <<>>, links |-> <<>>]}
    \cup {SysfsTree("g1", names, withV4l, videos, others) :
            names \in SUBSET {"gadget.0", "gadget.1", "uevent"},
            withV4l \in BOOLEAN,
            videos \in SUBSET {"video0", "video3"},
            others \in SUBSET {"video9"}}

FdirChoices ==
    {[ok |-> FALSE, path |-> <<>>]}
    \cup {[ok |-> TRUE, path |-> p] :
            p \in {DefaultDir, <<"g1", "functions", "uvc.0">>, <<"functions", "uvc.0">>,
                   <<"uvc.0">>, <<>>}}

(***************************************************************************)
(* Specifications.                                                         *)
(***************************************************************************)
NoFpsCall == [n |-> 1, out |-> 0, done |-> FALSE]

NoSysfs == [dirs |-> {<<>>}, files |-> <<>>, links |-> <<>>]

NoV4l ==
    [done |-> FALSE, ok |-> FALSE, kind |-> "none", path |-> <<>>, printed |-> <<>>,
     reads |-> <<>>]

\* a second register() call that has not started
NoOther ==
    [phase |-> "built", rpc |-> "create_streaming_header", fi |-> 1, sym_links |-> <<>>,
     li |-> 1, regResult |-> "none", calls |-> <<>>]

InitProgram ==
    /\ frames = <<>>
    /\ phase = "builder"
    /\ rpc = "create_streaming_header"
    /\ fi = 1
    /\ sym_links = <<>>
    /\ li = 1
    /\ regResult = "none"
    /\ calls = <<>>
    /\ tdPass = 0
    /\ tdStack = <<>>
    /\ tdResults = <<>>
    /\ tdVisited = <<>>
    /\ statusOut = "none"
    /\ other = NoOther

\* activation and teardown of one function
Init ==
    /\ InitProgram
    /\ mkparents \in BOOLEAN
    /\ kernelOwned \in BOOLEAN
    /\ fdir = [ok |-> TRUE, path |-> DefaultDir]
    /\ fs = EmptyFs(DefaultDir)
    /\ fsAfterRun = EmptyFs(DefaultDir)
    /\ fpsCall = NoFpsCall
    /\ sysfs = NoSysfs
    /\ v4l = NoV4l

Next ==
    \/ AddFrame
    \/ Build
    \/ RegCreateStreamingHeader
    \/ RegWriteInterval
    \/ RegWriteMaxpacket
    \/ RegWriteMaxburst
    \/ RegFrameWidth
    \/ RegFrameHeight
    \/ RegFrameBuffer
    \/ RegFrameInterval
    \/ RegCreateControlHeader
    \/ RegLink
    \/ TdStart
    \/ TdWalkRoot
    \/ TdUnlink
    \/ TdDescend
    \/ TdSkip
    \/ TdReturnNested
    \/ TdReturnRoot

Spec == Init /\ [][Next]_vars

\* a frame of the test's size
SmallFrame(format, name) ==
    [format |-> format, name |-> name, width |-> SmallDims[1], height |-> SmallDims[2],
     frame_intervals |-> SmallDims[3]]

\* the frame lists of the built functions: none, one, two, two of the same name
BuiltFrameLists ==
    {<<>>,
     <<SmallFrame("mjpeg", "mjpeg")>>,
     <<SmallFrame("mjpeg", "mjpeg"), SmallFrame("uncompressed", "yuyv")>>,
     <<SmallFrame("mjpeg", "mjpeg"), SmallFrame("uncompressed", "mjpeg")>>}

\* a built function, register() not yet called
InitBuilt ==
    /\ frames \in BuiltFrameLists
    /\ phase = "built"
    /\ rpc = "create_streaming_header"
    /\ fi = 1
    /\ sym_links = <<>>
    /\ li = 1
    /\ regResult = "none"
    /\ calls = <<>>
    /\ tdPass = 0
    /\ tdStack = <<>>
    /\ tdResults = <<>>
    /\ tdVisited = <<>>
    /\ statusOut = "none"
    /\ other = NoOther
    /\ mkparents \in BOOLEAN
    /\ kernelOwned \in BOOLEAN
    /\ fdir = [ok |-> TRUE, path |-> DefaultDir]
    /\ fs = EmptyFs(DefaultDir)
    /\ fsAfterRun = EmptyFs(DefaultDir)
    /\ fpsCall = NoFpsCall
    /\ sysfs = NoSysfs
    /\ v4l = NoV4l

\* the steps of register()
NextRegister ==
    \/ RegCreateStreamingHeader
    \/ RegWriteInterval
    \/ RegWriteMaxpacket
    \/ RegWriteMaxburst
    \/ RegFrameWidth
    \/ RegFrameHeight
    \/ RegFrameBuffer
    \/ RegFrameInterval
    \/ RegCreateControlHeader
    \/ RegLink

\* the steps of remove_handler()
NextTeardown ==
    \/ TdStart
    \/ TdWalkRoot
    \/ TdUnlink
    \/ TdDescend
    \/ TdSkip
    \/ TdReturnNested
    \/ TdReturnRoot

\* activation and teardown of a built function in an environment that can fail any
\* filesystem call of register()
NextFault ==
    \/ NextRegister
    \/ RegFault
    \/ NextTeardown

SpecFault == InitBuilt /\ [][NextFault]_vars

\* two concurrent activations of one built function
NextRace ==
    \/ NextRegister
    \/ Switch

SpecRace == InitBuilt /\ [][NextRace]_vars

\* calls of the pure function UvcBuilder::fps
InitFps ==
    /\ InitProgram
    /\ mkparents = TRUE
    /\ kernelOwned = TRUE
    /\ fdir = [ok |-> TRUE, path |-> DefaultDir]
    /\ fs = EmptyFs(DefaultDir)
    /\ fsAfterRun = EmptyFs(DefaultDir)
    /\ fpsCall \in {[n |-> n, out |-> 0, done |-> FALSE] : n \in FpsInputs}
    /\ sysfs = NoSysfs
    /\ v4l = NoV4l

NextFps == CallFps

SpecFps == InitFps /\ [][NextFps]_vars

\* calls of Uvc::get_v4l_device
InitV4l ==
    /\ InitProgram
    /\ mkparents = TRUE
    /\ kernelOwned = TRUE
    /\ fdir \in FdirChoices
    /\ fs = EmptyFs(DefaultDir)
    /\ fsAfterRun = EmptyFs(DefaultDir)
    /\ fpsCall = NoFpsCall
    /\ sysfs \in SysfsChoices
    /\ v4l = NoV4l

NextV4l ==
    \/ GetV4lDevice
    \/ CallStatus

SpecV4l == InitV4l /\ [][NextV4l]_vars

(***************************************************************************)
(* Properties.                                                             *)
(***************************************************************************)
Abs(rel) == Join(DefaultDir, rel)

BeforeTeardown == tdResults = <<>> /\ phase # "teardown"

Activated == regResult = "ok"

SymlinkCalls == SelectSeq(calls, LAMBDA c : c.op = "symlink")

\* the links register() is to create, in order
ExpectedLinks ==
    [i \in 1..Len(frames) |-> <<"streaming", "header", "h", frames[i].name>>]
    \o <<<<"streaming", "class", "fs", "h">>, <<"streaming", "class", "hs", "h">>,
         <<"streaming", "class", "ss", "h">>, <<"control", "class", "fs", "h">>,
         <<"control", "class", "ss", "h">>>>

\* C1: every create_dir and write call of register() comes before its first symlink
\* call, and the symlink calls come in the order: one per frame in insertion order,
\* then streaming/class/{fs,hs,ss}/h, then control/class/{fs,ss}/h; a register() that
\* returned Ok has made all of them.
C1_LinksLastInOrder ==
    /\ \A i, j \in 1..Len(calls) : (i < j /\ calls[i].op = "symlink") => calls[j].op = "symlink"
    /\ Len(SymlinkCalls) <= Len(ExpectedLinks)
    /\ \A k \in 1..Len(SymlinkCalls) : SymlinkCalls[k].name = ExpectedLinks[k]
    /\ Activated => Len(SymlinkCalls) = Len(ExpectedLinks)

C1_Witness == Activated /\ Len(frames) = 2 /\ BeforeTeardown

\* what a link of the tree is to point at
ExpectedTarget(link) ==
    IF Len(link) = Len(DefaultDir) + 4 /\ SubSeq(link, Len(DefaultDir) + 1, Len(DefaultDir) + 2) = <<"streaming", "class">>
    THEN {Abs(<<"streaming", "header", "h">>)}
    ELSE IF Len(link) = Len(DefaultDir) + 4 /\ SubSeq(link, Len(DefaultDir) + 1, Len(DefaultDir) + 2) = <<"control", "class">>
    THEN {Abs(<<"control", "header", "h">>)}
    ELSE {Abs(<<"streaming", frames[i].format, frames[i].name>>) : i \in 1..Len(frames)}

\* C2: in every state of an activation, every symlink of the tree points at an existing
\* directory: streaming/header/h or control/header/h for a class link, a frame's
\* streaming/<format>/<name> for a header link.
C2_NoDanglingLink ==
    BeforeTeardown =>
        \A l \in DOMAIN fs.links : fs.links[l] \in fs.dirs /\ fs.links[l] \in ExpectedTarget(l)

C2_Witness ==
    /\ ~mkparents
    /\ phase = "registering"
    /\ Abs(<<"control", "class", "fs", "h">>) \in DOMAIN fs.links

ValidFrames ==
    \A i, j \in 1..Len(frames) :
        (i # j /\ frames[i].format = frames[j].format) => frames[i].name # frames[j].name

\* C3: for a valid frame sequence (names unique within a format), an activation whose
\* directories and files were all made creates exactly one symlink per descriptor under
\* streaming/header/h, the five class links, and no other.
C3_OneLinkPerDescriptor ==
    (phase = "registered" /\ BeforeTeardown /\ rpc \in {"link", "done"} /\ ValidFrames) =>
        /\ Activated
        /\ Cardinality({l \in DOMAIN fs.links : Parent(l) = Abs(<<"streaming", "header", "h">>)})
               = Len(frames)
        /\ Cardinality(DOMAIN fs.links) = Len(frames) + 5
        /\ \A k \in 1..Len(ExpectedLinks) : Abs(ExpectedLinks[k]) \in DOMAIN fs.links

TestFrame ==
    [format |-> "mjpeg", name |-> "mjpeg", width |-> 1920, height |-> 1080,
     frame_intervals |-> <<666666>>]

ResolutionDir(frame) ==
    Abs(<<"streaming", frame.format, frame.name, ToString(frame.height) \o "p">>)

\* C4: after an activation that returned Ok, for every descriptor wWidth holds the
\* decimal width and a newline, wHeight the decimal height and a newline, and
\* streaming/header/h/<name> is a symlink to streaming/<format>/<name>; for
\* {mjpeg, mjpeg, 1920, 1080} wWidth is "1920\n" and streaming/header/h/mjpeg points
\* at streaming/mjpeg/mjpeg.
C4_FrameFilesAndLink ==
    (Activated /\ BeforeTeardown) =>
        /\ \A i \in 1..Len(frames) :
            LET frame == frames[i]
                w == Join(ResolutionDir(frame), <<"wWidth">>)
                h == Join(ResolutionDir(frame), <<"wHeight">>)
                l == Abs(<<"streaming", "header", "h", frame.name>>)
            IN  /\ IsFile(fs, w) /\ fs.files[w] = ToString(frame.width) \o "\n"
                /\ IsFile(fs, h) /\ fs.files[h] = ToString(frame.height) \o "\n"
                /\ IsLink(fs, l) /\ fs.links[l] = Abs(<<"streaming", frame.format, frame.name>>)
        /\ (\E i \in 1..Len(frames) : frames[i] = TestFrame) =>
            /\ fs.files[Abs(<<"streaming", "mjpeg", "mjpeg", "1080p", "wWidth">>)] = "1920\n"
            /\ fs.links[Abs(<<"streaming", "header", "h", "mjpeg">>)]
                   = Abs(<<"streaming", "mjpeg", "mjpeg">>)

C4_Witness ==
    /\ Activated
    /\ BeforeTeardown
    /\ \E i \in 1..Len(frames) : frames[i] = TestFrame

\* 2 * width * height in decimal, over the integers
ExactBufferSize(frame) ==
    IF frame.width = 65536 /\ frame.height = 32768 THEN "4294967296"
    ELSE ToString(2 * frame.width * frame.height)

\* C5: register() never aborts on the multiplication, and every
\* dwMaxVideoFrameBufferSize it has written holds 2 * width * height in decimal.
C5_BufferSizeExact ==
    /\ regResult # "panic"
    /\ \A i \in 1..Len(frames) :
        LET p == Join(ResolutionDir(frames[i]), <<"dwMaxVideoFrameBufferSize">>)
        IN  IsFile(fs, p) => fs.files[p] = ExactBufferSize(frames[i]) \o "\n"

\* C6: fps(n) is 10_000_000 / n rounded toward zero: the largest r with
\* r * n <= 10_000_000; fps(15) = 666666 and fps(30) = 333333.
C6_FpsTruncates ==
    fpsCall.done =>
        /\ fpsCall.out >= 0
        /\ fpsCall.out * fpsCall.n <= 10000000
        /\ 10000000 - fpsCall.out * fpsCall.n < fpsCall.n
        /\ fpsCall.n = 15 => fpsCall.out = 666666
        /\ fpsCall.n = 30 => fpsCall.out = 333333

C6_Witness == fpsCall.done /\ fpsCall.n = 15

\* C7: once remove_handler has run after an activation that returned Ok, no symlink
\* is left under the function directory.
C7_NoLinksAfterTeardown ==
    (Activated /\ tdResults # <<>>) => DOMAIN fs.links = {}

C7_Witness == Activated /\ Len(frames) = 2 /\ tdResults = <<"ok">>

\* C8: after an activation, a second remove_handler run that follows a first run that
\* returned Ok returns Ok too, and changes nothing.
C8_TeardownIdempotent ==
    /\ (Activated /\ Len(tdResults) >= 2 /\ tdResults[1] = "ok") => tdResults[2] = "ok"
    /\ (Activated /\ Len(tdResults) = 1 /\ tdResults[1] = "ok") => fs = fsAfterRun

\* C9: remove_handler walks control/class, streaming/class, streaming/header,
\* streaming, control/header in this order, and in every state of the teardown of an
\* activated function every symlink still points at an existing directory.
C9_TeardownOrder ==
    /\ Len(tdVisited) <= 5
    /\ \A i \in 1..Len(tdVisited) :
        tdVisited[i] = <<<<"control", "class">>, <<"streaming", "class">>,
                         <<"streaming", "header">>, <<"streaming">>,
                         <<"control", "header">>>>[i]
    /\ (Activated /\ ~BeforeTeardown) => \A l \in DOMAIN fs.links : fs.links[l] \in fs.dirs

C9_Witness ==
    /\ Activated
    /\ phase = "teardown"
    /\ Len(frames) = 2
    /\ Abs(<<"streaming", "header", "h">>) \notin fs.dirs
    /\ Len(tdVisited) = 5

\* the video4linux directory of a bound gadget instance holds a directory video*
VideoDevices ==
    {d \in sysfs.dirs :
        /\ Len(d) = 8
        /\ SubSeq(d, 1, 4) = Drivers
        /\ StartsWith(d[6], "gadget.")
        /\ d[7] = "video4linux"
        /\ StartsWith(d[8], "video")}

\* C10: when the gadget's driver directory holds an entry gadget.X whose video4linux
\* directory holds a directory videoN, get_v4l_device returns the path /dev/videoN.
C10_ReturnsDevPath ==
    (v4l.done /\ fdir = [ok |-> TRUE, path |-> DefaultDir] /\ VideoDevices # {}) =>
        /\ v4l.ok
        /\ v4l.kind = "path"
        /\ \E d \in VideoDevices : v4l.path = <<"dev", FileName(d)>>

\* the function directory names a gadget: it has two parent levels, the second of them
\* with a file name
HasGadgetName == fdir.ok /\ gadget_name(fdir).some

DriverDir == libcomposite_driver_path(gadget_name(fdir).path[1])

\* C11: when the gadget's driver directory exists and holds no entry whose name starts
\* with "gadget.", get_v4l_device fails with a not-bound error and never returns success.
C11_NotBoundWithoutInstance ==
    (/\ v4l.done
     /\ HasGadgetName
     /\ path_is_dir(sysfs, DriverDir)
     /\ BoundGadgets(Children(sysfs, DriverDir)) = {}) =>
        /\ ~v4l.ok
        /\ v4l.kind = "not_bound"

\* C12: when the gadget's driver directory does not exist, get_v4l_device returns the
\* NotBound error, an error that tells "not bound" from other failures, and it has
\* listed nothing of sysfs but that directory.
C12_NotBoundWithoutDriverDir ==
    (v4l.done /\ HasGadgetName /\ ~path_is_dir(sysfs, DriverDir)) =>
        /\ ~v4l.ok
        /\ v4l.kind = "not_bound"
        /\ v4l.reads = <<DriverDir>>

\* C17: when the function directory has fewer than two parent levels, or the second
\* parent level has no name, get_v4l_device fails with the malformed-path error (the
\* InvalidData error of line 158) and has read nothing from sysfs.
C17_MalformedPath ==
    (v4l.done /\ fdir.ok /\ Len(fdir.path) < 3) =>
        /\ ~v4l.ok
        /\ v4l.kind = "invalid_data"
        /\ v4l.reads = <<>>

C17_Witness ==
    /\ v4l.done
    /\ fdir = [ok |-> TRUE, path |-> <<"functions", "uvc.0">>]
    /\ v4l.kind = "invalid_data"
    /\ Cardinality(sysfs.dirs) > 6

\* C18: no call of status() or get_v4l_device(), whether it succeeds or fails, changes
\* a directory, file or symlink of the function directory's tree or of sysfs.
C18_ViewReadOnly == [][fs' = fs /\ sysfs' = sysfs]_vars

\* both calls have returned, get_v4l_device with an error, in a sysfs that lacks the
\* driver directory
C18_Witness ==
    /\ v4l.done
    /\ ~v4l.ok
    /\ v4l.reads # <<>>
    /\ statusOut = "bound"
    /\ fs = EmptyFs(DefaultDir)

\* C13: a register() of an empty frame list that returned Ok has created
\* streaming/header/h and control/header/h and no other directory, has written
\* streaming_interval = "1\n", streaming_maxpacket = "3072\n" and
\* streaming_maxburst = "1\n" at the function root and no other file, and has created
\* the five class links and no other link.
C13_EmptyFrameList ==
    (frames = <<>> /\ Activated /\ BeforeTeardown) =>
        /\ fs.dirs = EmptyFs(DefaultDir).dirs
                      \cup {Abs(<<"streaming", "header", "h">>), Abs(<<"control", "header", "h">>)}
        /\ DOMAIN fs.files = {Abs(<<"streaming_interval">>), Abs(<<"streaming_maxpacket">>),
                              Abs(<<"streaming_maxburst">>)}
        /\ fs.files[Abs(<<"streaming_interval">>)] = "1\n"
        /\ fs.files[Abs(<<"streaming_maxpacket">>)] = "3072\n"
        /\ fs.files[Abs(<<"streaming_maxburst">>)] = "1\n"
        /\ DOMAIN fs.links = {Abs(<<"streaming", "class", "fs", "h">>),
                              Abs(<<"streaming", "class", "hs", "h">>),
                              Abs(<<"streaming", "class", "ss", "h">>),
                              Abs(<<"control", "class", "fs", "h">>),
                              Abs(<<"control", "class", "ss", "h">>)}
        /\ \A l \in DOMAIN fs.links :
              fs.links[l] = Abs(<<l[Len(l) - 3], "header", "h">>)

C13_Witness == frames = <<>> /\ Activated /\ BeforeTeardown /\ Len(calls) = 10

\* every directory, file and symlink of `before` is in `after`, the symlinks with
\* their targets
Keeps(after, before) ==
    /\ before.dirs \subseteq after.dirs
    /\ DOMAIN before.files \subseteq DOMAIN after.files
    /\ \A l \in DOMAIN before.links :
          l \in DOMAIN after.links /\ after.links[l] = before.links[l]

\* C14: no step of register() removes a directory, a file or a symlink, the step
\* whose call fails included; the failing call is the last call register() makes and
\* register() returns its error in that step; a register() that has returned an error
\* makes no further call.
C14_NoRollback ==
    [][/\ phase \in {"built", "registering"} => Keeps(fs', fs)
       /\ (regResult # "err" /\ regResult' = "err") =>
              /\ phase' = "registered"
              /\ Len(calls') = Len(calls) + 1
       /\ regResult = "err" =>
              /\ regResult' = "err"
              /\ calls' = calls
              /\ rpc' = rpc
              /\ phase' \in {"registered", "teardown"}]_vars

\* register() has failed in the middle of the symlink batch, after the frame files
\* and some of the links were created
C14_Witness ==
    /\ regResult = "err"
    /\ BeforeTeardown
    /\ calls[Len(calls)].op = "symlink"
    /\ Cardinality(DOMAIN fs.links) = 3
    /\ Abs(<<"streaming", "mjpeg", "mjpeg", "1080p", "wWidth">>) \in DOMAIN fs.files
    /\ Abs(<<"control", "header", "h">>) \in fs.dirs

\* a nested walk_and_delete is about to return and the remove_dir that follows fails
RemoveDirRefused ==
    /\ phase = "teardown"
    /\ Len(tdStack) > 1
    /\ Top.todo = {}
    /\ ~fs_remove_dir(fs, Top.dir, kernelOwned, fdir.path).ok

\* the next read_dir of the teardown fails: that of a subtree root, or that of an
\* entry of the innermost walk
ListingFails ==
    IF tdStack = <<>>
    THEN tdPass \in 1..Len(TeardownRoots)
         /\ ~fs_read_dir(fs, Join(fdir.path, TeardownRoots[tdPass])).ok
    ELSE \E e \in Top.todo : path_is_dir(fs, e) /\ ~fs_read_dir(fs, e).ok

\* the unlink of some symlink of the innermost walk fails
UnlinkFails ==
    /\ tdStack # <<>>
    /\ \E e \in Top.todo :
          path_exists(fs, e) /\ path_is_symlink(fs, e) /\ ~fs_remove_file(fs, e).ok

\* C15: a remove_dir that fails during teardown is ignored: remove_handler does not
\* return, and the walk goes on in the caller with the entries its read_dir has not
\* yielded yet; remove_handler returns an error only in a step in which a read_dir or
\* the unlink of a symlink fails.
C15_RemoveDirErrorsIgnored ==
    [][/\ RemoveDirRefused =>
              /\ phase' = "teardown"
              /\ tdResults' = tdResults
              /\ tdPass' = tdPass
              /\ tdStack' = Pop
       /\ (Len(tdResults') > Len(tdResults) /\ tdResults'[Len(tdResults')] = "err") =>
              (ListingFails \/ UnlinkFails)]_vars

\* remove_handler has returned Ok although the frame's directory, which holds the
\* frame's files, could not be removed
C15_Witness ==
    /\ Activated
    /\ tdResults = <<"ok">>
    /\ ~kernelOwned
    /\ Abs(<<"streaming", "mjpeg", "mjpeg", "1080p">>) \in fs.dirs
    /\ Abs(<<"streaming", "header", "h">>) \notin fs.dirs

C16_FirstCallFailed ==
    /\ regResult = "err"
    /\ Len(calls) = 1
    /\ tdResults = <<"ok">>

\* the five directories remove_handler calls walk_and_delete on
FiveRoots == {Abs(TeardownRoots[i]) : i \in 1..Len(TeardownRoots)}

\* p lies below one of the five directories
InsideFiveRoots(p) ==
    \E r \in FiveRoots : Len(p) > Len(r) /\ SubSeq(p, 1, Len(r)) = r

\* what a step of the teardown does to the tree, `kept` being the directories it is
\* said never to remove: it removes no regular file, so that every directory that
\* holds one stays; it removes only symlinks and directories below the five
\* directories; a step that unlinks a symlink does nothing else and opens no walk,
\* and no walk is opened on a symlink.
TeardownStep(kept) ==
    /\ fs'.files = fs.files
    /\ \A f \in DOMAIN fs'.files : Parent(f) \in fs'.dirs
    /\ fs'.dirs \subseteq fs.dirs
    /\ DOMAIN fs'.links \subseteq DOMAIN fs.links
    /\ \A d \in fs.dirs \ fs'.dirs : InsideFiveRoots(d) /\ d \notin kept
    /\ \A l \in DOMAIN fs.links \ DOMAIN fs'.links : InsideFiveRoots(l)
    /\ DOMAIN fs'.links # DOMAIN fs.links =>
          /\ fs'.dirs = fs.dirs
          /\ Len(tdStack') <= Len(tdStack)
    /\ Len(tdStack') > Len(tdStack) => ~IsLink(fs, tdStack'[Len(tdStack')].dir)

\* the original statement of C19: no step of the teardown removes a regular file,
\* follows a symlink, removes anything outside the five subtrees, or removes any of
\* the five directories remove_handler calls walk_and_delete on.
C19_NeverRemovesRoots ==
    [][phase = "teardown" => TeardownStep(FiveRoots)]_vars

\* the directories no teardown step removes: the one remove_handler has called
\* walk_and_delete on and is walking, and the three of the five that are no entry of
\* another of them
KeptRoots ==
    {Abs(<<"streaming">>), Abs(<<"control", "class">>), Abs(<<"control", "header">>)}
    \cup (IF tdPass \in 1..Len(TeardownRoots) THEN {Abs(TeardownRoots[tdPass])} ELSE {})

\* C19 (amended): no step of the teardown removes a regular file, follows a symlink,
\* removes anything outside the five subtrees, removes the directory whose walk
\* remove_handler has started, or removes streaming, control/class or control/header;
\* streaming/class and streaming/header can be removed, by the walk of streaming.
C19_TeardownFrame ==
    [][phase = "teardown" => TeardownStep(KeptRoots)]_vars

\* the walk of streaming has removed streaming/class and streaming/header, and the
\* frame's files and the root's are still there
C19_Witness ==
    /\ Activated
    /\ phase = "teardown"
    /\ tdPass = 4
    /\ Abs(<<"streaming", "class">>) \notin fs.dirs
    /\ Abs(<<"streaming", "header">>) \notin fs.dirs
    /\ Abs(<<"streaming", "mjpeg", "mjpeg", "1080p", "wWidth">>) \in DOMAIN fs.files
    /\ Abs(<<"streaming_interval">>) \in DOMAIN fs.files
    /\ DOMAIN fs.links = {}

\* C20: of two register() calls on the same function directory with the same frame
\* list, interleaved call by call, at most one returns Ok, and in every state every
\* symlink points at an existing directory.
C20_AtMostOneActivation ==
    /\ ~(regResult = "ok" /\ other.regResult = "ok")
    /\ \A l \in DOMAIN fs.links : fs.links[l] \in fs.dirs

\* both calls have returned, one with Ok and all its seven links made, the other with
\* an error
C20_Witness ==
    /\ Len(frames) = 2
    /\ regResult = "ok"
    /\ other.regResult = "err"
    /\ other.phase = "registered"
    /\ Cardinality(DOMAIN fs.links) = 7

====
